---- MODULE Spec2Model ----
(***************************************************************************)
(* Model of HunYuan/models/models.py: the resolution buckets, the          *)
(* construction of the HunYuan model, the forward / forward_raw pass with  *)
(* its skip stack, the rotary-embedding table lookup and unpatchify.       *)
(* Tensors are modelled by their shapes (sequences of dimensions) together *)
(* with the index of the block that produced them.                         *)
(***************************************************************************)
EXTENDS Integers, Sequences, FiniteSets, TLC

VARIABLES pc, cfg, blocks, xin, x, t, grid, freqs, skips, layer, calls,
          nPush, nPop, raw, out, arg, ret

vars == <<pc, cfg, blocks, xin, x, t, grid, freqs, skips, layer, calls,
          nPush, nPop, raw, out, arg, ret>>

\* ------------------------------------------------------------------ bounds
MaxDepth == 7
MaxBatch == 2
MaxTokens == 4
MaxGrid == 2

\* the value None of the source
None == [none |-> TRUE]

\* ------------------------------------------------ Resolution, ResolutionGroup
Resolution(width, height) == [width |-> width, height |-> height]

\* decimal digits of a natural number, as str() writes them
DigitChar == <<"0", "1", "2", "3", "4", "5", "6", "7", "8", "9">>

RECURSIVE Digits(_)
Digits(n) ==
  IF n < 10 THEN <<DigitChar[n + 1]>>
  ELSE Digits(n \div 10) \o <<DigitChar[(n % 10) + 1]>>

\* f'{a}x{b}': the two numbers in decimal around the letter x
FmtAxB(a, b) == Digits(a) \o <<"x">> \o Digits(b)

ResolutionStrSwapped(r) == FmtAxB(r.width, r.height)

ResolutionStr(r) == FmtAxB(r.height, r.width)

ResolutionGroupData ==
  << Resolution(768, 768), Resolution(1024, 1024), Resolution(1280, 1280),
     Resolution(1024, 768), Resolution(1152, 864), Resolution(1280, 960),
     Resolution(768, 1024), Resolution(864, 1152), Resolution(960, 1280),
     Resolution(1280, 768), Resolution(768, 1280) >>

supported_sizes ==
  { <<ResolutionGroupData[i].width, ResolutionGroupData[i].height>> :
      i \in 1..Len(ResolutionGroupData) }

is_validPerAxis(width, height) ==
  /\ width \in { s[1] : s \in supported_sizes }
  /\ height \in { s[2] : s \in supported_sizes }

is_valid(width, height) == <<width, height>> \in supported_sizes

\* --------------------------------------------------------- configurations
HUNYUAN_DIT_CONFIG ==
  [ name \in {"DiT-g/2", "DiT-XL/2", "DiT-L/2", "DiT-B/2"} |->
      CASE name = "DiT-g/2"  -> [depth |-> 40, hidden_size |-> 1408, patch_size |-> 2, num_heads |-> 16]
        [] name = "DiT-XL/2" -> [depth |-> 28, hidden_size |-> 1152, patch_size |-> 2, num_heads |-> 16]
        [] name = "DiT-L/2"  -> [depth |-> 24, hidden_size |-> 1024, patch_size |-> 2, num_heads |-> 16]
        [] name = "DiT-B/2"  -> [depth |-> 12, hidden_size |-> 768, patch_size |-> 2, num_heads |-> 12] ]

PresetNames == DOMAIN HUNYUAN_DIT_CONFIG

\* the defaults of HunYuan.__init__
DefaultHiddenSize == 1152
DefaultNumHeads == 16
DefaultInChannels == 4

\* values a caller may give
PatchSizes == {2, 3}
InChannelsSet == {1, DefaultInChannels}
Norms == {"layer", "rms", "batch"}

\* ------------------------------------------------------------- dictionaries
EmptyDict == [k \in {} |-> None]

DictSet(d, k, v) == [kk \in (DOMAIN d) \cup {k} |-> IF kk = k THEN v ELSE d[kk]]

\* ------------------------------------------------------ rotary embeddings
\* calc_rope: the arguments handed to get_fill_resize_and_crop and
\* get_2d_rotary_pos_embed, which are deterministic functions of them
calc_rope(self, height, width) ==
  LET th == (height \div 8) \div self.patch_size
      tw == (width \div 8) \div self.patch_size
      base_size == (512 \div 8) \div self.patch_size
  IN  [head_size |-> self.head_size, base_size |-> base_size, th |-> th, tw |-> tw]

\* standard_shapes: the table filled entry by entry, in the order of data
RECURSIVE FillShapes(_, _, _)
FillShapes(self, d, i) ==
  IF i > Len(ResolutionGroupData) THEN d
  ELSE LET reso == ResolutionGroupData[i]
       IN  FillShapes(self,
                      DictSet(d, ResolutionStr(reso), calc_rope(self, reso.height, reso.width)),
                      i + 1)

standard_shapes(self) == FillShapes(self, EmptyDict, 1)

\* forward_raw, the choice of the rotary embedding for a latent of size oh x ow
TargetSize(o) == (((o * 8) \div 16) * 16)

SelectRope(self, oh, ow) ==
  LET target_height == TargetSize(oh)
      target_width == TargetSize(ow)
      table == standard_shapes(self)
      reso == FmtAxB(target_height, target_width)
  IN  IF reso \in DOMAIN table THEN table[reso]
      ELSE calc_rope(self, target_height, target_width)

\* ------------------------------------------------------------ tensors
\* a tensor: its shape and the index of the block whose output it is
\* (-1: not the output of a block)
Tensor(shape, id) == [shape |-> shape, id |-> id]

\* t.repeat(2, ...): the first dimension doubled
Repeat2(shape) == [shape EXCEPT ![1] = 2 * @]

\* t[:n] along one dimension of size d
SliceTo(d, n) == IF n < d THEN n ELSE d

\* PatchEmbed (embedders.py): a (N, C, H, W) image becomes a sequence of
\* (H/patch)*(W/patch) tokens of width hidden_size
PatchEmbed(self, shape) ==
  << shape[1], (shape[3] \div self.patch_size) * (shape[4] \div self.patch_size),
     self.hidden_size >>

\* ------------------------------------------------------ HunYuanDiTBlock
\* __init__: the normalisation layer is chosen first, the skip layers last
HunYuanDiTBlockInit(norm_type, skip) ==
  IF norm_type \notin {"layer", "rms"}
  THEN [err |-> "ValueError", skip_linear |-> FALSE]
  ELSE [err |-> "", skip_linear |-> skip]

\* forward: torch.cat([x, skip]) needs a tensor when the block has skip layers
HunYuanDiTBlockForward(block, xt, skip, idx) ==
  IF block.skip_linear /\ skip = None
  THEN [err |-> "TypeError", out |-> xt]
  ELSE [err |-> "", out |-> Tensor(xt.shape, idx)]

\* ------------------------------------------------------------- HunYuan
SkipFlagInclusive(l, depth) == l >= depth \div 2

\* HunYuan.__init__, the skip argument of the block at index l
SkipFlag(l, depth) == l > depth \div 2

PopsSkipInclusive(l, depth) == l >= depth \div 2

\* forward_raw, whether the block at index l pops a skip value
PopsSkip(l, depth) == l > depth \div 2

PushesSkipInclusive(l, depth) == l <= (depth \div 2) - 1

\* forward_raw, whether the block at index l pushes its output
PushesSkip(l, depth) == l < (depth \div 2) - 1

ListPopFirst(s) == [value |-> s[1], rest |-> SubSeq(s, 2, Len(s))]

\* skips.pop() on a list that is not empty: the last element leaves the list
ListPop(s) == [value |-> s[Len(s)], rest |-> SubSeq(s, 1, Len(s) - 1)]

\* the attributes set by HunYuan.__init__
HunYuanAttrs(base, in_channels, learn_sigma, norm) ==
  [ depth |-> base.depth,
    learn_sigma |-> learn_sigma,
    in_channels |-> in_channels,
    out_channels |-> IF learn_sigma THEN in_channels * 2 ELSE in_channels,
    patch_size |-> base.patch_size,
    num_heads |-> base.num_heads,
    hidden_size |-> base.hidden_size,
    norm |-> norm,
    head_size |-> base.hidden_size \div base.num_heads,
    unpatchify_channels |-> IF learn_sigma THEN in_channels * 2 ELSE in_channels ]

\* the list of blocks built by HunYuan.__init__ (index l of the source is
\* position l + 1 here)
BuildBlocks(self) ==
  [ i \in 1..self.depth |-> HunYuanDiTBlockInit(self.norm, SkipFlag(i - 1, self.depth)) ]

\* configurations a caller may construct: the four presets and small depths
CustomConfigs ==
  { [depth |-> d, hidden_size |-> DefaultHiddenSize, patch_size |-> p,
     num_heads |-> DefaultNumHeads] : d \in 0..MaxDepth, p \in PatchSizes }

PresetConfigs == { HUNYUAN_DIT_CONFIG[n] : n \in PresetNames }

BaseConfigs == PresetConfigs \cup CustomConfigs

\* ------------------------------------------------------------ unpatchify
unpatchifyInferBatch(self, shape, h, w) ==
  LET c == self.unpatchify_channels
      p == self.patch_size
      per == h * w * p * p * c
      total == shape[1] * shape[2] * shape[3]
  IN  IF per = 0 \/ total % per # 0
      THEN [err |-> "RuntimeError", shape |-> <<>>]
      ELSE [err |-> "", shape |-> <<total \div per, c, h * p, w * p>>]

unpatchifyTransposed(self, shape, h, w) ==
  LET c == self.unpatchify_channels
      p == self.patch_size
  IN  IF h * w # shape[2]
      THEN [err |-> "AssertionError", shape |-> <<>>]
      ELSE IF shape[1] * shape[2] * shape[3] # shape[1] * h * w * p * p * c
      THEN [err |-> "RuntimeError", shape |-> <<>>]
      ELSE [err |-> "", shape |-> <<shape[1], c, w * p, h * p>>]

\* unpatchify: the assertion, the two reshapes and the shape of imgs
unpatchify(self, shape, h, w) ==
  LET c == self.unpatchify_channels
      p == self.patch_size
  IN  IF h * w # shape[2]
      THEN [err |-> "AssertionError", shape |-> <<>>]
      ELSE IF shape[1] * shape[2] * shape[3] # shape[1] * h * w * p * p * c
      THEN [err |-> "RuntimeError", shape |-> <<>>]
      ELSE [err |-> "", shape |-> <<shape[1], c, h * p, w * p>>]

\* the elements of a tensor: a sequence in row-major order, the element of
\* flat index f at position f + 1
RECURSIVE SuffixProd(_, _)
SuffixProd(shape, k) ==
  IF k > Len(shape) THEN 1 ELSE shape[k] * SuffixProd(shape, k + 1)

NumEl(shape) == SuffixProd(shape, 1)

\* the flat index of the element at a (zero-based) multi-index
RECURSIVE RavelUpTo(_, _, _)
RavelUpTo(idx, shape, k) ==
  IF k = 0 THEN 0 ELSE RavelUpTo(idx, shape, k - 1) * shape[k] + idx[k]

Ravel(idx, shape) == RavelUpTo(idx, shape, Len(shape))

\* the multi-index of the element at a flat index
Unravel(flat, shape) ==
  [ k \in 1..Len(shape) |-> (flat \div SuffixProd(shape, k + 1)) % shape[k] ]

EinsumSourceSwappedPQ(o) == <<o[1], o[3], o[5], o[6], o[4], o[2]>>

\* torch.einsum('nhwpqc->nchpwq'): the index (n, h, w, p, q, c) of the
\* operand read for the index o = (n, c, h, p, w, q) of the result
EinsumSource(o) == <<o[1], o[3], o[5], o[4], o[6], o[2]>>

\* unpatchify on the elements: reshape to (N, h, w, p, p, c), the einsum,
\* reshape to (N, c, h*p, w*p); a reshape keeps the row-major order
unpatchifyData(self, data, shape, h, w) ==
  LET c == self.unpatchify_channels
      p == self.patch_size
      res == unpatchify(self, shape, h, w)
      s6 == <<shape[1], h, w, p, p, c>>
      e6 == <<shape[1], c, h, p, w, p>>
  IN  IF res.err # ""
      THEN [err |-> res.err, shape |-> <<>>, data |-> <<>>]
      ELSE [err |-> "", shape |-> res.shape,
            data |-> [ f \in 1..NumEl(e6) |->
                         data[Ravel(EinsumSource(Unravel(f - 1, e6)), s6) + 1] ]]

\* FinalLayer.forward: the linear projection sets the last dimension
FinalLayer(self, shape) ==
  <<shape[1], shape[2], self.patch_size * self.patch_size * self.out_channels>>

\* forward, the value returned: the first in_channels channels, the first
\* B rows
ReturnAllRows(self, rawshape, inshape) ==
  [rawshape EXCEPT ![2] = SliceTo(@, self.in_channels)]

ForwardSlice(self, rawshape, inshape) ==
  [rawshape EXCEPT ![1] = SliceTo(@, inshape[1]),
                   ![2] = SliceTo(@, self.in_channels)]

\* ---------------------------------------------------------------- state
\* sizes of the latent a caller may pass: the latents of the eleven
\* buckets (pixels / 8) and small ones
LatentSizes == {4, 5, 6, 96, 108, 120, 128, 144, 160}

NoCfg == HunYuanAttrs([depth |-> 0, hidden_size |-> DefaultHiddenSize,
                       patch_size |-> 2, num_heads |-> DefaultNumHeads],
                      DefaultInChannels, TRUE, "layer")

NoTensor == Tensor(<<>>, -1)

NoRope == [head_size |-> 0, base_size |-> 0, th |-> 0, tw |-> 0]

NoArg == [shape |-> <<>>, h |-> 0, w |-> 0]

NoRet == [err |-> "", shape |-> <<>>, valid |-> FALSE]

CallVarsReset ==
  /\ xin = <<>> /\ x = NoTensor /\ t = <<>> /\ grid = <<0, 0>>
  /\ freqs = NoRope /\ skips = <<>> /\ layer = 0 /\ calls = <<>>
  /\ nPush = 0 /\ nPop = 0 /\ raw = <<>> /\ out = <<>>

Init ==
  /\ pc = "new"
  /\ cfg = NoCfg
  /\ blocks = <<>>
  /\ CallVarsReset
  /\ arg = NoArg
  /\ ret = NoRet

\* HunYuan.__init__
Construct ==
  /\ pc = "new"
  /\ \E base \in BaseConfigs, in_channels \in InChannelsSet,
        learn_sigma \in BOOLEAN, norm \in Norms :
       LET self == HunYuanAttrs(base, in_channels, learn_sigma, norm)
           built == BuildBlocks(self)
       IN  /\ cfg' = self
           /\ IF \E i \in DOMAIN built : built[i].err # ""
              THEN pc' = "ctor_error" /\ blocks' = <<>>
              ELSE pc' = "constructed" /\ blocks' = built
  /\ UNCHANGED <<xin, x, t, grid, freqs, skips, layer, calls, nPush, nPop,
                 raw, out, arg, ret>>

\* forward up to the block loop of forward_raw (a forward pass leaves the
\* attributes and the blocks as they are, so that a second pass on the same
\* model goes through the states of the first)
ForwardBegin ==
  /\ pc = "constructed"
  /\ \E B \in 1..MaxBatch, H \in LatentSizes, W \in LatentSizes :
       LET inshape == <<B, cfg.in_channels, H, W>>
       IN  /\ xin' = inshape
           /\ grid' = <<H \div cfg.patch_size, W \div cfg.patch_size>>
           /\ t' = <<Repeat2(<<B>>)[1], cfg.hidden_size>>
           /\ x' = Tensor(PatchEmbed(cfg, Repeat2(inshape)), -1)
           /\ freqs' = SelectRope(cfg, H, W)
  /\ skips' = <<>>
  /\ layer' = 0
  /\ calls' = <<>>
  /\ nPush' = 0
  /\ nPop' = 0
  /\ raw' = <<>>
  /\ out' = <<>>
  /\ pc' = "blocks"
  /\ UNCHANGED <<cfg, blocks, arg, ret>>

\* one iteration of the block loop of forward_raw
BlockStep ==
  /\ pc = "blocks"
  /\ layer < Len(blocks)
  /\ IF PopsSkip(layer, cfg.depth) /\ skips = <<>>
     THEN /\ pc' = "pop_error"
          /\ UNCHANGED <<x, skips, layer, calls, nPush, nPop>>
     ELSE LET pops == PopsSkip(layer, cfg.depth)
              skip == IF pops THEN ListPop(skips).value ELSE None
              rest == IF pops THEN ListPop(skips).rest ELSE skips
              res == HunYuanDiTBlockForward(blocks[layer + 1], x, skip, layer)
              pushes == PushesSkip(layer, cfg.depth)
          IN  /\ calls' = Append(calls, [layer |-> layer, skip |-> skip])
              /\ nPop' = IF pops THEN nPop + 1 ELSE nPop
              /\ IF res.err # ""
                 THEN /\ pc' = "block_error"
                      /\ skips' = rest
                      /\ UNCHANGED <<x, layer, nPush>>
                 ELSE /\ x' = res.out
                      /\ skips' = IF pushes THEN Append(rest, res.out) ELSE rest
                      /\ nPush' = IF pushes THEN nPush + 1 ELSE nPush
                      /\ layer' = layer + 1
                      /\ pc' = "blocks"
  /\ UNCHANGED <<cfg, blocks, xin, t, grid, freqs, raw, out, arg, ret>>

\* the final layer and unpatchify, the end of forward_raw
FinalStep ==
  /\ pc = "blocks"
  /\ layer = Len(blocks)
  /\ LET res == unpatchify(cfg, FinalLayer(cfg, x.shape), grid[1], grid[2])
     IN  IF res.err # ""
         THEN pc' = "unpatchify_error" /\ raw' = <<>>
         ELSE pc' = "raw_done" /\ raw' = res.shape
  /\ UNCHANGED <<cfg, blocks, xin, x, t, grid, freqs, skips, layer, calls,
                 nPush, nPop, out, arg, ret>>

\* forward, after forward_raw has returned
ForwardReturn ==
  /\ pc = "raw_done"
  /\ out' = ForwardSlice(cfg, raw, xin)
  /\ pc' = "done"
  /\ UNCHANGED <<cfg, blocks, xin, x, t, grid, freqs, skips, layer, calls,
                 nPush, nPop, raw, arg, ret>>

Next == Construct \/ ForwardBegin \/ BlockStep \/ FinalStep \/ ForwardReturn

Spec == Init /\ [][Next]_vars

\* ------------------------------------------- ResolutionGroup.is_valid alone
\* widths and heights a caller may ask about
AskedSizes == {767, 768, 864, 960, 999, 1024, 1152, 1280}

InitRes ==
  /\ pc = "res_call"
  /\ cfg = NoCfg
  /\ blocks = <<>>
  /\ CallVarsReset
  /\ \E width \in AskedSizes, height \in AskedSizes :
       arg = [shape |-> <<>>, h |-> height, w |-> width]
  /\ ret = NoRet

IsValidCall ==
  /\ pc = "res_call"
  /\ ret' = [NoRet EXCEPT !.valid = is_valid(arg.w, arg.h)]
  /\ pc' = "res_done"
  /\ UNCHANGED <<cfg, blocks, xin, x, t, grid, freqs, skips, layer, calls,
                 nPush, nPop, raw, out, arg>>

NextRes == IsValidCall

SpecRes == InitRes /\ [][NextRes]_vars

\* ------------------------------------------------------- unpatchify alone
\* a constructed model of one of the presets and a call of unpatchify with
\* any token tensor and any grid
InitUnpatchify ==
  /\ pc = "unpatchify_call"
  /\ \E base \in PresetConfigs, in_channels \in InChannelsSet, learn_sigma \in BOOLEAN :
       /\ cfg = HunYuanAttrs(base, in_channels, learn_sigma, "layer")
       /\ blocks = BuildBlocks(cfg)
       /\ \E N \in 1..MaxBatch, T \in 0..MaxTokens, h \in 0..MaxGrid, w \in 0..MaxGrid,
             extra \in 0..1 :
            arg = [shape |-> <<N, T, cfg.patch_size * cfg.patch_size * cfg.unpatchify_channels + extra>>,
                   h |-> h, w |-> w]
  /\ CallVarsReset
  /\ ret = NoRet

UnpatchifyCall ==
  /\ pc = "unpatchify_call"
  /\ LET res == unpatchify(cfg, arg.shape, arg.h, arg.w)
     IN  ret' = [NoRet EXCEPT !.err = res.err, !.shape = res.shape]
  /\ pc' = "unpatchify_done"
  /\ UNCHANGED <<cfg, blocks, xin, x, t, grid, freqs, skips, layer, calls,
                 nPush, nPop, raw, out, arg>>

NextUnpatchify == UnpatchifyCall

SpecUnpatchify == InitUnpatchify /\ [][NextUnpatchify]_vars

\* ------------------------------------------ unpatchify on the elements
\* unpatchify reads patch_size and unpatchify_channels only: models of depth
\* 0 and 12, and a token tensor whose elements are numbered by their flat
\* index
InitPermute ==
  /\ pc = "permute_call"
  /\ \E base \in { b \in BaseConfigs : b.depth \in {0, 12} },
        in_channels \in InChannelsSet, learn_sigma \in BOOLEAN :
       /\ cfg = HunYuanAttrs(base, in_channels, learn_sigma, "layer")
       /\ blocks = BuildBlocks(cfg)
       /\ \E N \in 1..MaxBatch, h \in 0..MaxGrid, w \in 0..MaxGrid, extra \in 0..1 :
            LET shape == <<N, h * w + extra,
                           cfg.patch_size * cfg.patch_size * cfg.unpatchify_channels>>
            IN  arg = [shape |-> shape, h |-> h, w |-> w,
                       data |-> [ f \in 1..NumEl(shape) |-> f - 1 ]]
  /\ CallVarsReset
  /\ ret = [err |-> "", shape |-> <<>>, data |-> <<>>]

PermuteCall ==
  /\ pc = "permute_call"
  /\ ret' = unpatchifyData(cfg, arg.data, arg.shape, arg.h, arg.w)
  /\ pc' = "permute_done"
  /\ UNCHANGED <<cfg, blocks, xin, x, t, grid, freqs, skips, layer, calls,
                 nPush, nPop, raw, out, arg>>

NextPermute == PermuteCall

SpecPermute == InitPermute /\ [][NextPermute]_vars

\* ================================================================ claims
\* the counts the block loop is specified by: the indices below
\* depth // 2 - 1 and the indices above depth // 2
PushIndices(depth) == { l \in 0..(depth - 1) : l < (depth \div 2) - 1 }

PopIndices(depth) == { l \in 0..(depth - 1) : l > depth \div 2 }

Started == pc \in {"blocks", "pop_error", "block_error", "raw_done", "unpatchify_error", "done"}

LoopOver == pc \in {"raw_done", "unpatchify_error", "done"} \/ (pc = "blocks" /\ layer = Len(blocks))

IsPreset == \E n \in PresetNames :
              /\ cfg.depth = HUNYUAN_DIT_CONFIG[n].depth
              /\ cfg.hidden_size = HUNYUAN_DIT_CONFIG[n].hidden_size
              /\ cfg.patch_size = HUNYUAN_DIT_CONFIG[n].patch_size
              /\ cfg.num_heads = HUNYUAN_DIT_CONFIG[n].num_heads

\* C1: for the supported depths 12, 24, 28 and 40 the block loop, started
\* with an empty skip stack, never pops from an empty stack, and the number
\* of blocks that push (index < depth // 2 - 1) equals the number of blocks
\* that pop (index > depth // 2).
C1_SupportedDepthsBalanced ==
  /\ { HUNYUAN_DIT_CONFIG[n].depth : n \in PresetNames } = {12, 24, 28, 40}
  /\ (Started /\ cfg.depth \in {12, 24, 28, 40}) =>
       /\ pc # "pop_error"
       /\ Cardinality(PushIndices(cfg.depth)) = Cardinality(PopIndices(cfg.depth))
       /\ nPop <= nPush
       /\ LoopOver => /\ nPush = Cardinality(PushIndices(cfg.depth))
                      /\ nPop = Cardinality(PopIndices(cfg.depth))
                      /\ nPush = nPop

C1_Witness == pc = "done" /\ cfg.depth = 40 /\ nPush = 19 /\ nPop = 19

\* C2 as stated: for each preset, a forward pass on an input of shape
\* (batch, in_channels, height, width) gives an output of shape
\* (batch, out_channels, height, width); stated here for the inputs whose
\* height and width are multiples of the patch size.
C2_OutputHasOutChannels ==
  (pc = "done" /\ IsPreset /\ xin[3] % cfg.patch_size = 0 /\ xin[4] % cfg.patch_size = 0) =>
     out = <<xin[1], cfg.out_channels, xin[3], xin[4]>>

\* C2 amended: for each preset the forward pass does not fail and gives an
\* output of shape (batch, in_channels, (height // patch) * patch,
\* (width // patch) * patch), which is (batch, in_channels, height, width)
\* when height and width are multiples of the patch size.
C2_OutputShape ==
  (Started /\ IsPreset) =>
     /\ pc \notin {"pop_error", "block_error", "unpatchify_error"}
     /\ pc = "done" =>
          /\ out = << xin[1], cfg.in_channels,
                      (xin[3] \div cfg.patch_size) * cfg.patch_size,
                      (xin[4] \div cfg.patch_size) * cfg.patch_size >>
          /\ (xin[3] % cfg.patch_size = 0 /\ xin[4] % cfg.patch_size = 0) =>
               out = <<xin[1], cfg.in_channels, xin[3], xin[4]>>

C2_Witness ==
  /\ pc = "done" /\ IsPreset /\ cfg.depth = 28 /\ cfg.learn_sigma
  /\ xin = <<2, 4, 128, 96>> /\ out = <<2, 4, 128, 96>>

\* C3: for every batch size B, forward_raw works on image and timestep
\* batches of size 2B, and forward returns the first in_channels channels
\* and the first B rows of its result: batch size B, in_channels channels.
C3_BatchAndChannels ==
  /\ Started => /\ x.shape[1] = 2 * xin[1]
                /\ t[1] = 2 * xin[1]
  /\ pc \in {"raw_done", "done"} =>
       /\ raw[1] = 2 * xin[1]
       /\ raw[2] = cfg.out_channels
  /\ pc = "done" =>
       /\ out[1] = xin[1]
       /\ out[2] = cfg.in_channels
       /\ out[3] = raw[3] /\ out[4] = raw[4]

C3_Witness ==
  /\ pc = "done" /\ xin[1] = 2 /\ cfg.learn_sigma /\ cfg.in_channels = 4
  /\ raw[1] = 4 /\ raw[2] = 8 /\ out[1] = 2 /\ out[2] = 4

\* C4 as stated: for every input of spatial size (H, W) the grid h = H //
\* patch, w = W // patch handed to unpatchify has h*patch = H and w*patch = W,
\* and the unpatchified output has the spatial size of the input.
C4_GridTimesPatchIsInput ==
  /\ Started => /\ grid[1] * cfg.patch_size = xin[3]
                /\ grid[2] * cfg.patch_size = xin[4]
  /\ pc \in {"raw_done", "done"} => (raw[3] = xin[3] /\ raw[4] = xin[4])

\* C5: unpatchify(x, h, w) fails with a shape-mismatch error and gives no
\* image whenever h*w differs from the number of tokens of x; it gives an
\* image only when h*w equals that number.
C5_MismatchFails ==
  pc = "unpatchify_done" =>
    /\ (arg.h * arg.w # arg.shape[2]) => (ret.err = "AssertionError" /\ ret.shape = <<>>)
    /\ (ret.err = "") => /\ arg.h * arg.w = arg.shape[2]
                         /\ ret.shape = << arg.shape[1], cfg.unpatchify_channels,
                                           arg.h * cfg.patch_size, arg.w * cfg.patch_size >>
    /\ (ret.err # "") => ret.shape = <<>>

C5_Witness ==
  /\ pc = "unpatchify_done" /\ arg.shape[2] = 4 /\ arg.h = 1 /\ arg.w = 2
  /\ arg.shape[3] = cfg.patch_size * cfg.patch_size * cfg.unpatchify_channels
  /\ ret.err = "AssertionError"

\* C6 as stated: constructing the model with a normalization type other than
\* "layer" or "rms" fails at construction time whatever the other
\* configuration values, the depth included; with "layer" or "rms" it does not.
C6_UnknownNormFails ==
  pc # "new" =>
    /\ (cfg.norm \notin {"layer", "rms"}) => pc = "ctor_error"
    /\ (cfg.norm \in {"layer", "rms"}) => pc # "ctor_error"

\* C7: the rotary-embedding table is a cache: for every target height and
\* width the value forward_raw selects, from the table under the key "HxW"
\* or computed on demand, is calc_rope(height, width); each of the eleven
\* entries is stored under the key forward_raw builds for its own height
\* and width.
C7_TableIsCache ==
  /\ Started =>
       freqs = calc_rope(cfg, TargetSize(xin[3]), TargetSize(xin[4]))
  /\ pc = "constructed" =>
       LET table == standard_shapes(cfg)
       IN  /\ Cardinality(DOMAIN table) = 11
           /\ \A i \in 1..11 :
                LET r == ResolutionGroupData[i]
                    key == FmtAxB(r.height, r.width)
                IN  /\ key \in DOMAIN table
                    /\ table[key] = calc_rope(cfg, r.height, r.width)

C7_Witness ==
  /\ pc = "blocks" /\ layer = 1
  /\ TargetSize(xin[3]) = 1024 /\ TargetSize(xin[4]) = 768
  /\ FmtAxB(1024, 768) = <<"1", "0", "2", "4", "x", "7", "6", "8">>
  /\ FmtAxB(1024, 768) \in DOMAIN standard_shapes(cfg)
  /\ freqs.th = 64 /\ freqs.tw = 48

\* C8: is_valid(width, height) is true exactly for the eleven resolution
\* buckets; is_valid(1024, 1024) is true and is_valid(999, 999) is false.
ElevenBuckets ==
  { <<768, 768>>, <<1024, 1024>>, <<1280, 1280>>, <<1024, 768>>, <<1152, 864>>,
    <<1280, 960>>, <<768, 1024>>, <<864, 1152>>, <<960, 1280>>, <<1280, 768>>,
    <<768, 1280>> }

C8_ValidIffBucket ==
  pc = "res_done" =>
    /\ Cardinality(ElevenBuckets) = 11
    /\ ret.valid <=> (<<arg.w, arg.h>> \in ElevenBuckets)
    /\ (arg.w = 1024 /\ arg.h = 1024) => ret.valid
    /\ (arg.w = 999 /\ arg.h = 999) => ~ret.valid

C8_Witness == pc = "res_done" /\ arg.w = 1152 /\ arg.h = 864 /\ ret.valid

\* C9: the block at index i has a skip-merge layer iff i > depth // 2; in
\* forward_raw a block is handed a popped skip tensor iff it has one; no
\* block with a skip-merge layer is called without a skip tensor and no
\* block without one is handed a skip tensor.
C9_SkipLayerIffSkipArg ==
  pc \notin {"new", "ctor_error"} =>
    /\ Len(blocks) = cfg.depth
    /\ \A i \in 1..Len(blocks) : blocks[i].skip_linear <=> ((i - 1) > cfg.depth \div 2)
    /\ \A k \in 1..Len(calls) :
         (calls[k].skip # None) <=> blocks[calls[k].layer + 1].skip_linear
    /\ pc # "block_error"

C9_Witness ==
  /\ pc = "done" /\ cfg.depth = 12 /\ Len(calls) = 12
  /\ calls[7].skip = None /\ calls[8].skip # None /\ blocks[8].skip_linear

\* C10: for any depth for which the number of pushing blocks (index <
\* depth // 2 - 1) differs from the number of popping blocks (index >
\* depth // 2), the block loop reaches a pop on an empty skip stack and the
\* forward pass fails before the final layer is applied.
C10_UnbalancedDepthFails ==
  (Started /\ Cardinality(PushIndices(cfg.depth)) # Cardinality(PopIndices(cfg.depth))) =>
    /\ pc \in {"blocks", "pop_error"}
    /\ raw = <<>> /\ out = <<>>
    /\ pc = "blocks" => /\ layer < Len(blocks)
                        /\ ENABLED BlockStep
    /\ (pc = "blocks" /\ layer = Len(blocks) - 1) =>
         (skips = <<>> /\ layer > cfg.depth \div 2)
    /\ pc = "pop_error" => (skips = <<>> /\ layer > cfg.depth \div 2)

C10_Witness == pc = "pop_error" /\ cfg.depth = 7 /\ layer = 6 /\ nPush = 2 /\ nPop = 2

C12_LifoPairing ==
  (Started /\ cfg.depth >= 2 /\ cfg.depth % 2 = 0) =>
    LET d == cfg.depth
        total == Cardinality(PushIndices(d))
    IN  /\ pc \notin {"pop_error", "block_error"}
        /\ nPush <= total
        /\ nPop > 0 => nPush = total
        /\ Len(skips) = nPush - nPop
        /\ \A m \in 1..Len(skips) : skips[m].id = m - 1
        /\ \A k \in 1..Len(calls) :
             /\ calls[k].layer = k - 1
             /\ (calls[k].layer > d \div 2) =>
                  (calls[k].skip # None /\ calls[k].skip.id = d - 1 - calls[k].layer)
             /\ (calls[k].layer <= d \div 2) => calls[k].skip = None
        /\ LoopOver =>
             /\ skips = <<>>
             /\ Len(calls) = d
             /\ \A i \in PushIndices(d) :
                  Cardinality({ k \in 1..Len(calls) :
                                  calls[k].skip # None /\ calls[k].skip.id = i }) = 1

C12_Witness ==
  /\ pc = "done" /\ cfg.depth = 12 /\ nPush = 5 /\ nPop = 5 /\ skips = <<>>
  /\ calls[8].skip # None /\ calls[8].skip.id = 4
  /\ calls[12].skip # None /\ calls[12].skip.id = 0

====
